---- MODULE Spec2Model ----
(***************************************************************************)
(* The 2-D histogram filter of localizer.cpp / helpers.cpp.                *)
(*                                                                         *)
(* A float is modelled as an exact non-negative rational n/d in lowest     *)
(* terms, plus the two IEEE specials the code can produce on such inputs:  *)
(* NaN (0/0) and +Inf (x/0, x > 0).  Rounding is not modelled.             *)
(* A grid (vector<vector<float>>) is a function 0..h-1 -> 0..w-1 -> float. *)
(* An access outside a vector is undefined behaviour; its outcome is a     *)
(* nondeterministic choice, see Outcomes.                                  *)
(* The loops are recursive operators over the iteration count k; each      *)
(* tests its accumulator before the step, which also has TLC evaluate the  *)
(* accumulator once per iteration.                                         *)
(***************************************************************************)
EXTENDS Integers, FiniteSets, Sequences, TLC

MaxH == 2        \* largest grid height explored
MaxW == 3        \* largest grid width explored
MaxD == 2        \* dy, dx range over -MaxD..MaxD
MaxSteps == 2    \* move/sense/blur calls after initialize_beliefs in the loop

VARIABLES map, beliefs, status, call, pc, steps

vars == <<map, beliefs, status, call, pc, steps>>

----------------------------------------------------------------------------
(* float arithmetic *)

RECURSIVE GCD(_, _)
GCD(a, b) == IF b = 0 THEN a ELSE GCD(b, a % b)

Q(n, d) == LET g == GCD(n, d) IN [n |-> n \div g, d |-> d \div g]

Zero == [n |-> 0, d |-> 1]
One  == [n |-> 1, d |-> 1]
NaN  == [n |-> 0, d |-> 0]
Inf  == [n |-> 1, d |-> 0]

IsNaN(x) == x.d = 0 /\ x.n = 0
IsInf(x) == x.d = 0 /\ x.n # 0
IsFinite(x) == x.d > 0

\* float +  (grid_total += ..., newGrid[..] += ...)
FAdd(x, y) ==
    IF IsNaN(x) \/ IsNaN(y) THEN NaN
    ELSE IF IsInf(x) \/ IsInf(y) THEN Inf
    ELSE Q(x.n * y.d + y.n * x.d, x.d * y.d)

\* float -  (1.0 - blurring), used with y <= x
FSub(x, y) ==
    IF IsNaN(x) \/ IsNaN(y) THEN NaN
    ELSE IF IsInf(x) THEN Inf
    ELSE Q(x.n * y.d - y.n * x.d, x.d * y.d)

\* float *  (mult * grid_value)
FMul(x, y) ==
    IF IsNaN(x) \/ IsNaN(y) THEN NaN
    ELSE IF IsInf(x) \/ IsInf(y)
         THEN (IF x = Zero \/ y = Zero THEN NaN ELSE Inf)
    ELSE Q(x.n * y.n, x.d * y.d)

\* a variant of float / that yields 0 when the divisor is 0
FDivGuarded(x, y) ==
    IF IsNaN(x) \/ IsNaN(y) THEN NaN
    ELSE IF IsInf(x) THEN (IF IsInf(y) THEN NaN ELSE Inf)
    ELSE IF IsInf(y) THEN Zero
    ELSE IF y.n = 0 THEN Zero
    ELSE Q(x.n * y.d, x.d * y.n)

\* float /  (grid[row][cell] / grid_total, blurring / 12.0, 1.0 / area)
FDiv(x, y) ==
    IF IsNaN(x) \/ IsNaN(y) THEN NaN
    ELSE IF IsInf(x) THEN (IF IsInf(y) THEN NaN ELSE Inf)
    ELSE IF IsInf(y) THEN Zero
    ELSE IF y.n = 0 THEN (IF x.n = 0 THEN NaN ELSE Inf)
    ELSE Q(x.n * y.d, x.d * y.n)

\* the % of C++ on int: the quotient truncates toward zero, so the result
\* has the sign of the dividend
CRem(a, n) == IF a >= 0 THEN a % n ELSE 0 - ((0 - a) % n)

----------------------------------------------------------------------------
(* grids *)

NoGrid == <<>>

Height(g) == Cardinality(DOMAIN g)
Width(g) == Cardinality(DOMAIN g[0])

\* vector<vector<float>> newGrid(height, vector<float>(width, v))
Filled(height, width, v) == [i \in 0 .. height - 1 |-> [j \in 0 .. width - 1 |-> v]]

InRange(g, i, j) == i \in 0 .. Height(g) - 1 /\ j \in 0 .. Width(g) - 1

\* Where an access g[i][j] resolves.  Inside the grid it is the cell itself.
\* Outside it is undefined behaviour: under mode "drop" it touches memory
\* that is no cell of the grid, under mode "flat" it resolves at the
\* row-major offset i*width + j when the grid has a cell at that offset.
Resolve(g, i, j, mode) ==
    LET w == Width(g)
        p == i * w + j
    IN IF InRange(g, i, j) THEN <<i, j>>
       ELSE IF mode = "flat" /\ p \in 0 .. Height(g) * w - 1 THEN <<p \div w, p % w>>
       ELSE <<-1, -1>>

\* g[i][j] = v
Store(g, i, j, v, mode) ==
    LET c == Resolve(g, i, j, mode)
    IN IF c[1] < 0 THEN g ELSE [g EXCEPT ![c[1]][c[2]] = v]

\* g[i][j] as an rvalue; a read that resolves to no cell yields 0 (such a
\* value is only ever stored through the same unresolved index)
Load(g, i, j, mode) ==
    LET c == Resolve(g, i, j, mode)
    IN IF c[1] < 0 THEN Zero ELSE g[c[1]][c[2]]

----------------------------------------------------------------------------
(* helpers.cpp *)

RECURSIVE TotalLoop(_, _, _)
\* the summing loop of normalize, cells row 0..size-1, cell 0..grid[0].size-1
TotalLoop(grid, k, grid_total) ==
    LET w == Width(grid)
    IN IF k = Height(grid) * w \/ IsNaN(grid_total) THEN grid_total
       ELSE TotalLoop(grid, k + 1, FAdd(grid_total, grid[k \div w][k % w]))

GridTotal(grid) == TotalLoop(grid, 0, Zero)

\* the upper bound of the inner loop of normalize's division loop
NormalizeCellBound(grid) == Height(grid)

RECURSIVE DivideLoop(_, _, _, _, _)
\* the dividing loop of normalize: row 0..size-1, cell 0..NormalizeCellBound-1
DivideLoop(grid, grid_total, k, newGrid, mode) ==
    LET n == NormalizeCellBound(grid)
        row == k \div n
        cell == k % n
    IN IF k = Height(grid) * n \/ newGrid = NoGrid THEN newGrid
       ELSE DivideLoop(grid, grid_total, k + 1,
                Store(newGrid, row, cell,
                      FDiv(Load(grid, row, cell, mode), grid_total), mode),
                mode)

\* normalize reads and writes outside a row when the inner bound exceeds the width
NormalizeUB(grid) == NormalizeCellBound(grid) > Width(grid)

Normalize(grid, mode) ==
    DivideLoop(grid, GridTotal(grid), 0,
               Filled(Height(grid), Width(grid), Zero), mode)

\* the 3x3 window of blur, indexed 0..2 x 0..2
Window(blurring) ==
    LET center_prob == FSub(One, blurring)
        corner_prob == FDiv(blurring, Q(12, 1))
        adjacent_prob == FDiv(blurring, Q(6, 1))
    IN [a \in 0 .. 2 |-> [c \in 0 .. 2 |->
          IF a = 1 /\ c = 1 THEN center_prob
          ELSE IF a = 1 \/ c = 1 THEN adjacent_prob
          ELSE corner_prob]]

\* the destination index of blur from the raw remainder alone
BlurIndexRaw(k, n) == CRem(k, n)

\* ((k % n) + n) % n, the destination index of blur
BlurIndex(k, n) == CRem(CRem(k, n) + n, n)

RECURSIVE BlurLoop(_, _, _, _)
\* the four nested loops of blur: i, j, dx, dy
BlurLoop(grid, window, k, newGrid) ==
    LET height == Height(grid)
        width == Width(grid)
        i == k \div (9 * width)
        j == (k \div 9) % width
        dx == ((k \div 3) % 3) - 1
        dy == (k % 3) - 1
        mult == window[dx + 1][dy + 1]
        new_i == BlurIndex(i + dy, height)
        new_j == BlurIndex(j + dx, width)
    IN IF k = 9 * height * width \/ newGrid = NoGrid THEN newGrid
       ELSE BlurLoop(grid, window, k + 1,
                Store(newGrid, new_i, new_j,
                      FAdd(Load(newGrid, new_i, new_j, "drop"), FMul(mult, grid[i][j])),
                      "drop"))

\* newGrid of blur as it is passed to normalize
BlurAccumulate(grid, blurring) ==
    BlurLoop(grid, Window(blurring), 0, Filled(Height(grid), Width(grid), Zero))

----------------------------------------------------------------------------
(* localizer.cpp *)

\* belief_per_cell with the area taken to be the height alone
BeliefPerCellOfHeight(height, width) == FDiv(One, Q(height, 1))

\* belief_per_cell = 1.0 / area
BeliefPerCell(height, width) == FDiv(One, Q(height * width, 1))

InitializeBeliefs(grid) ==
    LET height == Height(grid)
        width == Width(grid)
    IN Filled(height, width, BeliefPerCell(height, width))

\* <<new_i, new_j>> of move for source cell (i, j)
MoveDest(i, j, dy, dx, height, width) ==
    <<CRem(i + dy, width), CRem(j + dx, height)>>

RECURSIVE TranslateLoop(_, _, _, _, _, _)
\* the shifting loop of move
TranslateLoop(dy, dx, bel, k, newGrid, mode) ==
    LET height == Height(bel)
        width == Width(bel)
        i == k \div width
        j == k % width
        d == MoveDest(i, j, dy, dx, height, width)
    IN IF k = height * width \/ newGrid = NoGrid THEN newGrid
       ELSE TranslateLoop(dy, dx, bel, k + 1,
                Store(newGrid, d[1], d[2], bel[i][j], mode), mode)

\* newGrid of move as it is passed to blur
Translate(dy, dx, bel, mode) ==
    TranslateLoop(dy, dx, bel, 0, Filled(Height(bel), Width(bel), Zero), mode)

\* move writes outside newGrid
MoveUB(dy, dx, bel) ==
    \E i \in 0 .. Height(bel) - 1 : \E j \in 0 .. Width(bel) - 1 :
        LET d == MoveDest(i, j, dy, dx, Height(bel), Width(bel))
        IN ~InRange(bel, d[1], d[2])

----------------------------------------------------------------------------
(* What one call returns.  A call with no undefined behaviour has one      *)
(* outcome.  A call that accesses a vector out of range either crashes or   *)
(* runs on under one of the Modes of resolving the stray accesses.          *)

Modes == {"drop", "flat"}

Crashed(shifted, acc) ==
    [status |-> "crashed", grid |-> NoGrid, shifted |-> shifted, acc |-> acc]

Returned(grid, shifted, acc) ==
    [status |-> "ok", grid |-> grid, shifted |-> shifted, acc |-> acc]

\* normalize(grid).  On an empty grid, grid[0] is out of range; a run that
\* survives it builds a grid of grid.size() = 0 rows.
NormalizeOutcomes(grid) ==
    IF grid = NoGrid
    THEN {Crashed(NoGrid, NoGrid), Returned(NoGrid, NoGrid, NoGrid)}
    ELSE IF NormalizeUB(grid)
    THEN {Crashed(NoGrid, NoGrid)}
         \cup {Returned(Normalize(grid, m), NoGrid, NoGrid) : m \in Modes}
    ELSE {Returned(Normalize(grid, "drop"), NoGrid, NoGrid)}

\* blur(grid, blurring) = normalize(newGrid)
BlurOutcomes(grid, blurring) ==
    IF grid = NoGrid
    THEN {Crashed(NoGrid, NoGrid), Returned(NoGrid, NoGrid, NoGrid)}
    ELSE LET acc == BlurAccumulate(grid, blurring)
         IN {[o EXCEPT !.acc = acc] : o \in NormalizeOutcomes(acc)}

\* move(dy, dx, beliefs, blurring) = blur(newGrid, blurring)
MoveOutcomes(dy, dx, bel, blurring) ==
    IF bel = NoGrid
    THEN {Crashed(NoGrid, NoGrid), Returned(NoGrid, NoGrid, NoGrid)}
    ELSE IF MoveUB(dy, dx, bel)
    THEN {Crashed(NoGrid, NoGrid)}
         \cup {LET shifted == Translate(dy, dx, bel, m)
                   acc == BlurAccumulate(shifted, blurring)
               IN Returned(Normalize(acc, m), shifted, acc) : m \in Modes}
    ELSE LET shifted == Translate(dy, dx, bel, "drop")
         IN {[o EXCEPT !.shifted = shifted] : o \in BlurOutcomes(shifted, blurring)}

\* sense(color, grid, beliefs, p_hit, p_miss) = normalize(newGrid) with
\* newGrid the empty vector the body leaves it
SenseOutcomes(color, grid, bel, p_hit, p_miss) == NormalizeOutcomes(NoGrid)

----------------------------------------------------------------------------
(* inputs *)

Shapes == (1 .. MaxH) \X (1 .. MaxW)
Offsets == (0 - MaxD) .. MaxD
Blurrings == {Zero, Q(3, 25), One}
Colors == {"r", "g"}
SensorModels == {<<Q(3, 1), One>>, <<One, One>>}
\* the offsets and blurrings the localization loop draws from
LoopOffsets == {-1, 0, 1}
LoopBlurrings == {Zero, Q(3, 25)}

PointMass(h, w, pi, pj, v) ==
    [i \in 0 .. h - 1 |-> [j \in 0 .. w - 1 |-> IF i = pi /\ j = pj THEN v ELSE Zero]]

\* cell (i,j) holds i*w + j + 1: all values distinct
Ramp(h, w) == [i \in 0 .. h - 1 |-> [j \in 0 .. w - 1 |-> Q(i * w + j + 1, 1)]]

\* the ramp divided by its total
RampN(h, w) ==
    [i \in 0 .. h - 1 |-> [j \in 0 .. w - 1 |->
        Q(2 * (i * w + j + 1), (h * w) * (h * w + 1))]]

GridsOf(h, w) ==
    {Filled(h, w, Zero), Filled(h, w, One), Filled(h, w, Q(1, h * w)),
     Ramp(h, w), RampN(h, w), PointMass(h, w, 0, 0, Q(2, 1))}
    \cup {PointMass(h, w, pi, pj, One) : pi \in 0 .. h - 1, pj \in 0 .. w - 1}

Grids == UNION {GridsOf(s[1], s[2]) : s \in Shapes}

MapsOf(h, w) ==
    {Filled(h, w, "g"),
     [i \in 0 .. h - 1 |-> [j \in 0 .. w - 1 |-> IF i = 0 /\ j = 0 THEN "r" ELSE "g"]],
     [i \in 0 .. h - 1 |-> [j \in 0 .. w - 1 |-> IF (i + j) % 2 = 1 THEN "r" ELSE "g"]]}

Maps == UNION {MapsOf(s[1], s[2]) : s \in Shapes}

----------------------------------------------------------------------------
(* state *)

NoCall ==
    [op |-> "none", in |-> NoGrid, dy |-> 0, dx |-> 0, b |-> Zero,
     color |-> "-", cmap |-> NoGrid, p_hit |-> Zero, p_miss |-> Zero,
     shifted |-> NoGrid, acc |-> NoGrid, orig |-> NoGrid]

\* the call is recorded with its outcome o; beliefs is what the caller holds
Record(c, o) ==
    /\ call' = [c EXCEPT !.shifted = o.shifted, !.acc = o.acc]
    /\ beliefs' = o.grid
    /\ status' = o.status

DoInitializeBeliefs(grid) ==
    Record([NoCall EXCEPT !.op = "initialize_beliefs", !.cmap = grid],
           Returned(InitializeBeliefs(grid), NoGrid, NoGrid))

DoNormalize(grid) ==
    \E o \in NormalizeOutcomes(grid) :
        Record([NoCall EXCEPT !.op = "normalize", !.in = grid], o)

DoBlur(grid, blurring) ==
    \E o \in BlurOutcomes(grid, blurring) :
        Record([NoCall EXCEPT !.op = "blur", !.in = grid, !.b = blurring], o)

DoMove(op, dy, dx, bel, blurring, orig) ==
    \E o \in MoveOutcomes(dy, dx, bel, blurring) :
        Record([NoCall EXCEPT !.op = op, !.in = bel, !.dy = dy, !.dx = dx,
                              !.b = blurring, !.orig = orig], o)

DoSense(color, grid, bel, p_hit, p_miss) ==
    \E o \in SenseOutcomes(color, grid, bel, p_hit, p_miss) :
        Record([NoCall EXCEPT !.op = "sense", !.in = bel, !.color = color,
                              !.cmap = grid, !.p_hit = p_hit, !.p_miss = p_miss], o)

----------------------------------------------------------------------------
(* The localization loop: initialize_beliefs on the map, then move, sense  *)
(* and blur calls, each on the beliefs the previous call returned.          *)

Init ==
    /\ map \in Maps
    /\ beliefs = NoGrid
    /\ status = "ok"
    /\ call = NoCall
    /\ pc = "start"
    /\ steps = 0

Initialize ==
    /\ pc = "start"
    /\ DoInitializeBeliefs(map)
    /\ pc' = "loop"
    /\ UNCHANGED <<map, steps>>

Running == pc = "loop" /\ status = "ok" /\ steps < MaxSteps

Move ==
    /\ Running
    /\ \E dy \in LoopOffsets, dx \in LoopOffsets, b \in LoopBlurrings :
          DoMove("move", dy, dx, beliefs, b, NoGrid)
    /\ steps' = steps + 1
    /\ UNCHANGED <<map, pc>>

Sense ==
    /\ Running
    /\ \E c \in Colors, m \in SensorModels : DoSense(c, map, beliefs, m[1], m[2])
    /\ steps' = steps + 1
    /\ UNCHANGED <<map, pc>>

Blur ==
    /\ Running
    /\ \E b \in LoopBlurrings : DoBlur(beliefs, b)
    /\ steps' = steps + 1
    /\ UNCHANGED <<map, pc>>

Next == Initialize \/ Move \/ Sense \/ Blur

Spec == Init /\ [][Next]_vars

----------------------------------------------------------------------------
(* Each function called once on an input drawn from the bounded sets, and  *)
(* a move with blurring 0 followed by the move with the opposite offsets.   *)

InitFn ==
    /\ map = NoGrid
    /\ beliefs = NoGrid
    /\ status = "ok"
    /\ call = NoCall
    /\ pc = "idle"
    /\ steps = 0

CallInitializeBeliefs ==
    /\ pc = "idle"
    /\ \E m \in Maps : DoInitializeBeliefs(m)
    /\ pc' = "done"
    /\ UNCHANGED <<map, steps>>

CallNormalize ==
    /\ pc = "idle"
    /\ \E g \in Grids : DoNormalize(g)
    /\ pc' = "done"
    /\ UNCHANGED <<map, steps>>

CallBlur ==
    /\ pc = "idle"
    /\ \E g \in Grids, b \in Blurrings : DoBlur(g, b)
    /\ pc' = "done"
    /\ UNCHANGED <<map, steps>>

CallMove ==
    /\ pc = "idle"
    /\ \E dy \in Offsets, dx \in Offsets, g \in Grids, b \in Blurrings :
          DoMove("move", dy, dx, g, b, NoGrid)
    /\ pc' = "done"
    /\ UNCHANGED <<map, steps>>

CallSense ==
    /\ pc = "idle"
    /\ \E c \in Colors, m \in Maps, s \in SensorModels :
          \E g \in GridsOf(Height(m), Width(m)) : DoSense(c, m, g, s[1], s[2])
    /\ pc' = "done"
    /\ UNCHANGED <<map, steps>>

\* move(-dy, -dx, move(dy, dx, g, 0), 0) for a normalized g
CallMoveBack ==
    /\ pc = "done"
    /\ call.op = "move"
    /\ call.b = Zero
    /\ status = "ok"
    /\ GridTotal(call.in) = One
    /\ DoMove("moveback", 0 - call.dy, 0 - call.dx, beliefs, Zero, call.in)
    /\ pc' = "back"
    /\ UNCHANGED <<map, steps>>

\* initialize_beliefs, normalize, blur and sense, each called once
NextFn ==
    \/ CallInitializeBeliefs
    \/ CallNormalize
    \/ CallBlur
    \/ CallSense

SpecFn == InitFn /\ [][NextFn]_vars

\* move called once, and then once more with the opposite offsets
NextMove == CallMove \/ CallMoveBack

SpecMove == InitFn /\ [][NextMove]_vars

----------------------------------------------------------------------------
(* notions the properties are stated with *)

Cells(g) == (0 .. Height(g) - 1) \X (0 .. Width(g) - 1)

SameShape(a, b) ==
    /\ a # NoGrid
    /\ b # NoGrid
    /\ DOMAIN a = DOMAIN b
    /\ \A i \in DOMAIN a : DOMAIN a[i] = DOMAIN b[0]

RECURSIVE SumOver(_, _)
\* the sum of f over the finite set S, f a function to floats
SumOver(f, S) ==
    IF S = {} THEN Zero
    ELSE LET x == CHOOSE y \in S : TRUE
         IN FAdd(f[x], SumOver(f, S \ {x}))

\* the sum of the entries of g
SumCells(g) == SumOver([c \in Cells(g) |-> g[c[1]][c[2]]], Cells(g))

\* the kernel weight of offset (dx, dy) for blurring b
Weight(dx, dy, b) ==
    IF dx = 0 /\ dy = 0 THEN FSub(One, b)
    ELSE IF dx = 0 \/ dy = 0 THEN FDiv(b, Q(6, 1))
    ELSE FDiv(b, Q(12, 1))

Kernel == {-1, 0, 1} \X {-1, 0, 1}

\* what the sources (i,j) and offsets (dx,dy) that land on (p,q) contribute
Gathered(g, b, p, q) ==
    LET h == Height(g)
        w == Width(g)
        T == {t \in Cells(g) \X Kernel :
                 (t[1][1] + t[2][2]) % h = p /\ (t[1][2] + t[2][1]) % w = q}
    IN SumOver([t \in T |-> FMul(g[t[1][1]][t[1][2]], Weight(t[2][1], t[2][2], b))], T)

----------------------------------------------------------------------------
(* properties *)

\* C1: move with blurring 0 moves the value of every source cell (i,j) of a
\* height x width grid to cell ((i+dy) mod height, (j+dx) mod width) of the
\* translated grid, for any rectangular grid, square or not.
C1_MoveTranslatesEveryCell ==
    (call.op = "move" /\ call.b = Zero) =>
        /\ status = "ok"
        /\ SameShape(call.shifted, call.in)
        /\ \A c \in Cells(call.in) :
              call.shifted[(c[1] + call.dy) % Height(call.in)]
                          [(c[2] + call.dx) % Width(call.in)]
                  = call.in[c[1]][c[2]]

\* C2: normalize on a grid with nonzero total S returns a grid of the same
\* dimensions whose every cell (i,j) is grid[i][j] / S, so the result sums to 1.
C2_NormalizeDividesEveryCell ==
    (call.op = "normalize" /\ SumCells(call.in) # Zero) =>
        /\ status = "ok"
        /\ SameShape(beliefs, call.in)
        /\ \A c \in Cells(call.in) :
              beliefs[c[1]][c[2]] = FDiv(call.in[c[1]][c[2]], SumCells(call.in))
        /\ SumCells(beliefs) = One

\* u[i][j] = beliefs[i][j] * (p_hit if the map has the observed color, else p_miss)
Reweighted(c) ==
    [i \in DOMAIN c.in |-> [j \in DOMAIN c.in[i] |->
        FMul(c.in[i][j], IF c.cmap[i][j] = c.color THEN c.p_hit ELSE c.p_miss)]]

\* C3: sense returns normalize(u), u the beliefs reweighted cell by cell with
\* p_hit where the map shows the observed color and p_miss elsewhere.
C3_SenseIsBayesUpdate ==
    (call.op = "sense" /\ SameShape(call.cmap, call.in)) =>
        /\ status = "ok"
        /\ SameShape(beliefs, call.in)
        /\ \A c \in Cells(call.in) :
              beliefs[c[1]][c[2]]
                  = FDiv(Reweighted(call)[c[1]][c[2]], SumCells(Reweighted(call)))

\* C4: blur accumulates v * weight(dx,dy) from every source cell and kernel
\* offset into cell ((i+dy) mod height, (j+dx) mod width); every destination
\* index it computes is that modulus and lies inside the grid; and the grid
\* accumulated before normalization has the total of the input grid.
C4_BlurAccumulates ==
    (call.op = "blur") =>
        LET h == Height(call.in)
            w == Width(call.in)
        IN /\ \A c \in Cells(call.in), o \in Kernel :
                 /\ BlurIndex(c[1] + o[2], h) = (c[1] + o[2]) % h
                 /\ BlurIndex(c[2] + o[1], w) = (c[2] + o[1]) % w
                 /\ BlurIndex(c[1] + o[2], h) \in 0 .. h - 1
                 /\ BlurIndex(c[2] + o[1], w) \in 0 .. w - 1
           /\ SameShape(call.acc, call.in)
           /\ \A c \in Cells(call.in) :
                 call.acc[c[1]][c[2]] = Gathered(call.in, call.b, c[1], c[2])
           /\ SumCells(call.acc) = SumCells(call.in)

\* blur of [[1, 2]] with blurring 0.12: every offset wraps onto the one row,
\* and dx = -1 and dx = 1 both land on the other column
C4_Witness ==
    /\ call.op = "blur"
    /\ call.in = Ramp(1, 2)
    /\ call.b = Q(3, 25)
    /\ call.acc[0][0] = Q(27, 25)
    /\ call.acc[0][1] = Q(48, 25)

\* C5: after initialize_beliefs and any sequence of move, sense and blur
\* calls the beliefs have the dimensions of the map, entries >= 0 and sum 1.
C5_BeliefsStayDistribution ==
    (pc = "loop") =>
        /\ status = "ok"
        /\ SameShape(beliefs, map)
        /\ \A c \in Cells(beliefs) : IsFinite(beliefs[c[1]][c[2]])
        /\ SumCells(beliefs) = One

\* C6: move(-dy, -dx, move(dy, dx, g, 0), 0) returns the normalized grid g.
C6_MoveRoundTrip ==
    (call.op = "moveback") => (status = "ok" /\ beliefs = call.orig)

\* C7: every destination index pair move computes lies inside the grid,
\* for negative offsets and offsets of magnitude >= the dimension too.
C7_MoveIndicesInRange ==
    (call.op \in {"move", "moveback"} /\ call.in # NoGrid) =>
        \A c \in Cells(call.in) :
            LET d == MoveDest(c[1], c[2], call.dy, call.dx,
                              Height(call.in), Width(call.in))
            IN d[1] \in 0 .. Height(call.in) - 1 /\ d[2] \in 0 .. Width(call.in) - 1

\* normalize was handed a grid of total zero, directly or by blur
ZeroTotalCall ==
    \/ call.op = "normalize" /\ SumCells(call.in) = Zero
    \/ call.op = "blur" /\ SumCells(call.acc) = Zero

C10_InitializeBeliefsUniform ==
    (call.op = "initialize_beliefs") =>
        /\ status = "ok"
        /\ SameShape(beliefs, call.cmap)
        /\ \A c \in Cells(call.cmap) :
              beliefs[c[1]][c[2]] = [n |-> 1, d |-> Height(call.cmap) * Width(call.cmap)]
        /\ SumCells(beliefs) = One

\* the 2x3 map with one red cell gives 1/6 in every cell
C10_Witness ==
    /\ call.op = "initialize_beliefs"
    /\ Height(call.cmap) = 2
    /\ Width(call.cmap) = 3
    /\ call.cmap[0][0] = "r"
    /\ call.cmap[1][2] = "g"
    /\ beliefs = Filled(2, 3, [n |-> 1, d |-> 6])

====
